---------------------------- MODULE Spec2Model ----------------------------
(***************************************************************************)
(* HoneyBadger Vanguard API: the Express server (src/unnamed/part_000),     *)
(* the key-generation CLI and the PostgreSQL schema (src/unnamed/part_001). *)
(*                                                                         *)
(* One request is a small state machine whose steps are the points where    *)
(* the handler chain awaits a store: the limiter's increment in Redis, then *)
(* each pool.query of authenticateApiKey and of the route handler.  A step  *)
(* executes the awaited statement atomically and runs the continuation up   *)
(* to the next await.  Strings are sequences of tokens, so that header      *)
(* parsing and bcrypt comparison are computed, not assumed.                 *)
(***************************************************************************)
EXTENDS Naturals, Integers, Sequences, FiniteSets, TLC

VARIABLES
    now,        \* wall clock, in ticks of 30 s
    api_keys,   \* table api_keys: sequence of rows, the index is the id
    agents,     \* table agents: set of rows (UNIQUE agent_id)
    beacons,    \* table beacons: sequence of rows in insertion order
    results,    \* table results: sequence of rows in insertion order
    redis,      \* rate-limit keys in Redis: key -> [hits, reset]
    req,        \* the requests in flight: slot -> request record
    window,     \* history: per client, start and admissions of its current window
    proc        \* the process: CONFIG, the server, the pool and the Redis client

vars == <<now, api_keys, agents, beacons, results, redis, req, window, proc>>

----------------------------------------------------------------------------
(* Bounds of the model *)

MaxKeys == 1        \* runs of the key-generation CLI
MaxTime == 4        \* the clock stops here
RateLimitMax == 2   \* CONFIG.rateLimit, API_RATE_LIMIT of the deployment
MaxRows == 2        \* beacons and results written, with the requests in flight
MaxSignals == 2     \* signals sent to the process

(* Program constants *)

WindowMs == 2       \* windowMs = 60 * 1000, in ticks of 30 s

\* JavaScript's undefined / SQL's NULL for a string; NULL for a timestamp.
Absent == <<"undefined">>
NoTime == 0 - 1

Clients == {"10.0.0.1", "10.0.0.2"}
Instances == {"api-1", "api-2"}
KeyNames == {"old-key"}
AgentIds == {"a1", "a2"}

\* The requests in flight together: two, each slot taken again once its
\* response is sent.
Slots == {1, 2}

PublicRoutes == {"GET /api/v1/status", "GET /api/v1/modules"}
ProtectedRoutes == {"POST /api/v1/beacon", "POST /api/v1/results",
                    "GET /api/v1/results", "GET /api/v1/agents"}
Routes == PublicRoutes \cup ProtectedRoutes

\* What a caller may ask for: the six routes, and a path outside /api/.
Targets == Routes \cup {"GET /"}

\* The path of a target, as its segments.
PathOf(target) ==
    CASE target = "GET /api/v1/status" -> <<"api", "v1", "status">>
      [] target = "GET /api/v1/modules" -> <<"api", "v1", "modules">>
      [] target = "POST /api/v1/beacon" -> <<"api", "v1", "beacon">>
      [] target = "POST /api/v1/results" -> <<"api", "v1", "results">>
      [] target = "GET /api/v1/results" -> <<"api", "v1", "results">>
      [] target = "GET /api/v1/agents" -> <<"api", "v1", "agents">>
      [] OTHER -> <<>>

----------------------------------------------------------------------------
(* Secrets and bcrypt *)

\* crypto.randomBytes(32).toString('hex') of the i-th run of the CLI: a fresh value.
RandomHex(i) == <<"rnd", ToString(i)>>

\* 'hbv_' + random
NewApiKey(i) == <<"hbv_">> \o RandomHex(i)

\* bcrypt.hash(data, 12): version and cost, a salt, and the digest of salt and data.
BcryptHash(data, salt) == <<"$2b$12$", salt>> \o data

\* A string that parses as a bcrypt hash.
ValidHash(h) == Len(h) >= 2 /\ h[1] = "$2b$12$"

\* bcrypt.compare(data, hash): false for a hash that does not parse (the empty
\* string included), otherwise whether data hashes to it under its salt.
BcryptCompare(data, hash) ==
    ValidHash(hash) /\ BcryptHash(data, hash[2]) = hash

----------------------------------------------------------------------------
(* authenticateApiKey: the presented secret *)

\* A JavaScript string used as a condition: undefined and '' are falsy.
Truthy(v) == v # Absent /\ v # <<>>

\* a || b
Or(a, b) == IF Truthy(a) THEN a ELSE b

\* str.replace('Bearer ', ''): the first occurrence of the token is removed.
RECURSIVE ReplaceBearer(_)
ReplaceBearer(str) ==
    IF str = <<>> THEN <<>>
    ELSE IF Head(str) = "Bearer " THEN Tail(str)
    ELSE <<Head(str)>> \o ReplaceBearer(Tail(str))

\* req.headers['x-api-key'] || req.headers['authorization']?.replace('Bearer ', '')
ExtractApiKey(headers) ==
    Or(headers.x_api_key,
       IF headers.authorization = Absent THEN Absent
       ELSE ReplaceBearer(headers.authorization))

\* The values a caller may present: the secrets the CLI has issued so far,
\* and NewApiKey(0), which it never issues.
Presented(issued) == {NewApiKey(i) : i \in 0..issued}

HeaderChoices(issued) ==
    {[x_api_key |-> Absent, authorization |-> Absent]}
    \cup {[x_api_key |-> v, authorization |-> Absent] : v \in Presented(issued)}
    \cup {[x_api_key |-> Absent, authorization |-> <<"Bearer ">> \o v] : v \in Presented(issued)}
    \cup {[x_api_key |-> Absent, authorization |-> v] : v \in Presented(issued)}
    \cup {[x_api_key |-> NewApiKey(0), authorization |-> <<"Bearer ">> \o v] :
              v \in Presented(issued)}

----------------------------------------------------------------------------
(* Table api_keys *)

\* INSERT INTO api_keys (key_hash, name, is_active) VALUES ($1, $2, TRUE)
ApiKeyRow(keyHash, name) ==
    [key_hash |-> keyHash, name |-> name, is_active |-> TRUE, last_used_at |-> NoTime]

\* A variant: SELECT * FROM api_keys, every row with every column.
SelectEveryKey(table) ==
    [i \in DOMAIN table |->
        [id |-> i, name |-> table[i].name, key_hash |-> table[i].key_hash,
         is_active |-> table[i].is_active]]

\* SELECT id, name, is_active FROM api_keys WHERE is_active = TRUE
\* The rows carry the three selected columns and no other.
SelectActiveKeys(table) ==
    LET ids == {i \in DOMAIN table : table[i].is_active}
        RECURSIVE rows(_)
        rows(i) == IF i > Len(table) THEN <<>>
                   ELSE (IF i \in ids
                         THEN <<[id |-> i, name |-> table[i].name,
                                 is_active |-> table[i].is_active]>>
                         ELSE <<>>) \o rows(i + 1)
    IN rows(1)

NoKey == 0

\* row.<column>: undefined for a column the row does not carry.
Column(row, c) == IF c \in DOMAIN row THEN row[c] ELSE Absent

\* A variant: the first row is taken whatever bcrypt.compare answers.
FindFirstKey(apiKey, rows) == IF rows = <<>> THEN NoKey ELSE Head(rows).id

\* for (const row of result.rows) { if (await bcrypt.compare(apiKey, row.key_hash || '')) ... }
\* The id of the first matching row; NoKey for validKey = null.
RECURSIVE FindValidKey(_, _)
FindValidKey(apiKey, rows) ==
    IF rows = <<>> THEN NoKey
    ELSE IF BcryptCompare(apiKey, Or(Column(Head(rows), "key_hash"), <<>>))
         THEN Head(rows).id
         ELSE FindValidKey(apiKey, Tail(rows))

\* A variant: the touch sets is_active as well.
TouchKeyAndActivate(table, id, t) ==
    [i \in DOMAIN table |->
        IF i = id THEN [table[i] EXCEPT !.last_used_at = t, !.is_active = TRUE]
        ELSE table[i]]

\* UPDATE api_keys SET last_used_at = CURRENT_TIMESTAMP WHERE id = $1
TouchKey(table, id, t) ==
    [i \in DOMAIN table |->
        IF i = id THEN [table[i] EXCEPT !.last_used_at = t] ELSE table[i]]

----------------------------------------------------------------------------
(* The limiter: express-rate-limit over rate-limit-redis *)

\* A variant: a counter of the instance's own, as with the in-memory store.
CounterKeyPerInstance(instance, ip) == <<"rl:", instance, ip>>

\* The Redis key of a client: the store's prefix and req.ip.  Every server
\* instance sends its commands to the same Redis.
CounterKey(instance, ip) == <<"rl:", ip>>

Live(store, key, t) == key \in DOMAIN store /\ store[key].reset > t

\* The store's increment: INCR, and PEXPIRE windowMs on a key without expiry,
\* in one script.
Increment(store, key, t) ==
    LET entry == IF Live(store, key, t)
                 THEN [hits |-> store[key].hits + 1, reset |-> store[key].reset]
                 ELSE [hits |-> 1, reset |-> t + WindowMs]
    IN [k \in DOMAIN store \cup {key} |-> IF k = key THEN entry ELSE store[k]]

\* Redis drops a key when its expiry has passed.
Expire(store, t) ==
    [k \in {j \in DOMAIN store : store[j].reset > t} |-> store[k]]

\* No RateLimit-* headers recorded.
NoRateLimit == [limit |-> 0 - 1, remaining |-> 0 - 1, reset |-> 0 - 1]

\* A variant: remaining is max - totalHits, not floored at 0.
RateLimitHeadersUnfloored(entry, t) ==
    [limit |-> RateLimitMax, remaining |-> RateLimitMax - entry.hits,
     reset |-> entry.reset - t]

\* standardHeaders: true.  RateLimit-Limit, RateLimit-Remaining and
\* RateLimit-Reset (time left to the window's end).
RateLimitHeaders(entry, t) ==
    [limit |-> RateLimitMax,
     remaining |-> IF entry.hits < RateLimitMax THEN RateLimitMax - entry.hits ELSE 0,
     reset |-> entry.reset - t]

\* A variant: totalHits >= max.
OverLimitAtMax(totalHits) == totalHits >= RateLimitMax

\* totalHits > max: the request is answered 429.
OverLimit(totalHits) == totalHits > RateLimitMax

\* A variant: the limiter mounted on the protected routes only.
LimitedProtected(path) ==
    Len(path) >= 3 /\ path[1] = "api" /\ path[3] \in {"beacon", "results", "agents"}

\* app.use('/api/', limiter): the paths the limiter is mounted on.
Limited(path) == Len(path) >= 1 /\ path[1] = "api"

----------------------------------------------------------------------------
(* Validation schemas (Joi) *)

\* Joi.string(): a string, and not the empty one.
IsString(v) == v # Absent /\ v # <<>>

\* Joi.string().optional()
OptionalString(v) == v = Absent \/ IsString(v)

Severities == {<<"low">>, <<"medium">>, <<"high">>, <<"critical">>}

\* schemas.beacon.validate(body): the first offending key, or "" for no error.
ValidateBeacon(body) ==
    IF ~IsString(body.agent_id) THEN "agent_id"
    ELSE IF ~OptionalString(body.hostname) THEN "hostname"
    ELSE IF ~OptionalString(body.platform) THEN "platform"
    ELSE IF ~OptionalString(body.version) THEN "version"
    ELSE ""

\* schemas.result.validate(body): the first offending key, or "" for no error.
ValidateResult(body) ==
    IF ~IsString(body.agent_id) THEN "agent_id"
    ELSE IF ~IsString(body.module) THEN "module"
    ELSE IF ~OptionalString(body.target) THEN "target"
    ELSE IF ~OptionalString(body.result_type) THEN "result_type"
    ELSE IF body.data = Absent THEN "data"
    ELSE IF body.severity # Absent /\ body.severity \notin Severities THEN "severity"
    ELSE ""

\* metadata || {}
ObjectOr(obj, default) == IF obj = Absent THEN default ELSE obj

EmptyObject == <<>>

----------------------------------------------------------------------------
(* Tables agents, beacons, results *)

HasAgent(table, id) == \E row \in table : row.agent_id = id

\* A variant: DO UPDATE SET hostname = COALESCE(EXCLUDED.hostname,
\* agents.hostname), ..., metadata = agents.metadata || EXCLUDED.metadata.
UpsertAgentMerging(table, v, ip, t) ==
    IF HasAgent(table, v.agent_id)
    THEN {IF row.agent_id = v.agent_id
          THEN [row EXCEPT !.hostname = Or(v.hostname, row.hostname),
                           !.platform = Or(v.platform, row.platform),
                           !.version = Or(v.version, row.version), !.ip_address = ip,
                           !.metadata = ObjectOr(v.metadata, row.metadata),
                           !.last_seen = t, !.is_active = TRUE]
          ELSE row : row \in table}
    ELSE table \cup {[agent_id |-> v.agent_id, hostname |-> v.hostname,
                       platform |-> v.platform, version |-> v.version,
                       ip_address |-> ip,
                       metadata |-> ObjectOr(v.metadata, EmptyObject),
                       first_seen |-> t, last_seen |-> t, is_active |-> TRUE]}

\* INSERT INTO agents (...) VALUES (..., CURRENT_TIMESTAMP, CURRENT_TIMESTAMP)
\* ON CONFLICT (agent_id) DO UPDATE SET hostname, platform, version, ip_address,
\* metadata = EXCLUDED.*, last_seen = CURRENT_TIMESTAMP, is_active = TRUE
UpsertAgent(table, v, ip, t) ==
    IF HasAgent(table, v.agent_id)
    THEN {IF row.agent_id = v.agent_id
          THEN [row EXCEPT !.hostname = v.hostname, !.platform = v.platform,
                           !.version = v.version, !.ip_address = ip,
                           !.metadata = ObjectOr(v.metadata, EmptyObject),
                           !.last_seen = t, !.is_active = TRUE]
          ELSE row : row \in table}
    ELSE table \cup {[agent_id |-> v.agent_id, hostname |-> v.hostname,
                       platform |-> v.platform, version |-> v.version,
                       ip_address |-> ip,
                       metadata |-> ObjectOr(v.metadata, EmptyObject),
                       first_seen |-> t, last_seen |-> t, is_active |-> TRUE]}

\* INSERT INTO beacons (agent_id, ip_address, metadata) VALUES ($1, $2, $3)
BeaconRow(v, ip, t) ==
    [agent_id |-> v.agent_id, ip_address |-> ip,
     metadata |-> ObjectOr(v.metadata, EmptyObject), timestamp |-> t,
     status |-> <<"active">>]

\* Trigger update_agent_last_seen, AFTER INSERT ON beacons.
UpdateAgentLastSeen(table, new) ==
    {IF row.agent_id = new.agent_id
     THEN [row EXCEPT !.last_seen = new.timestamp, !.is_active = TRUE]
     ELSE row : row \in table}

\* INSERT INTO results (...) VALUES (...) RETURNING id, timestamp
ResultRow(v, id, t) ==
    [id |-> id, agent_id |-> v.agent_id, module |-> v.module, target |-> v.target,
     result_type |-> v.result_type, data |-> v.data, severity |-> v.severity,
     metadata |-> ObjectOr(v.metadata, EmptyObject), timestamp |-> t]

\* A variant: the tables without the constraint.
NoForeignKey(table, id) == TRUE

\* FOREIGN KEY (agent_id) REFERENCES agents(agent_id)
ForeignKeyHolds(table, id) == HasAgent(table, id)

\* mark_inactive_agents(): no beacon in 7 days (INTERVAL '7 days'; on the
\* model's clock, longer than a rate window).
StaleAfter == 3
MarkInactiveAgents(table, t) ==
    {IF row.last_seen + StaleAfter < t /\ row.is_active
     THEN [row EXCEPT !.is_active = FALSE] ELSE row : row \in table}

\* parseInt(str, 10) of a query parameter; NaN for what is no number.
NaN == [nan |-> TRUE, n |-> 0]
Num(n) == [nan |-> FALSE, n |-> n]
ParseInt(str) ==
    CASE str = <<"-1">> -> Num(0 - 1)
      [] str = <<"0">> -> Num(0)
      [] str = <<"1">> -> Num(1)
      [] str = <<"2">> -> Num(2)
      [] str = <<"100">> -> Num(100)
      [] OTHER -> NaN

\* const { limit = 100, offset = 0 } = req.query
DefaultLimit == <<"100">>
DefaultOffset == <<"0">>
Default(v, d) == IF v = Absent THEN d ELSE v

\* A variant: the severity condition is left out.
MatchesButSeverity(row, q) ==
    /\ (Truthy(q.agent_id) => row.agent_id = q.agent_id)
    /\ (Truthy(q.module) => row.module = q.module)
    /\ (q.since # NoTime => row.timestamp >= q.since)

\* WHERE 1=1 AND agent_id = $1 AND module = $2 AND severity = $3 AND timestamp >= $4,
\* each condition only for a parameter that is given (truthy).
Matches(row, q) ==
    /\ (Truthy(q.agent_id) => row.agent_id = q.agent_id)
    /\ (Truthy(q.module) => row.module = q.module)
    /\ (Truthy(q.severity) => row.severity = q.severity)
    /\ (q.since # NoTime => row.timestamp >= q.since)

\* ORDER BY timestamp DESC over a set of rows (rows of one timestamp by id).
RECURSIVE OrderByTimestampDesc(_)
OrderByTimestampDesc(rows) ==
    IF rows = {} THEN <<>>
    ELSE LET first == CHOOSE r \in rows : \A o \in rows :
                          \/ r.timestamp > o.timestamp
                          \/ (r.timestamp = o.timestamp /\ r.id >= o.id)
         IN <<first>> \o OrderByTimestampDesc(rows \ {first})

\* A variant: OFFSET $m alone.
OffsetOnly(rows, limit, offset) == SubSeq(rows, offset + 1, Len(rows))

\* LIMIT $n OFFSET $m
LimitOffset(rows, limit, offset) ==
    SubSeq(rows, offset + 1, IF offset + limit < Len(rows) THEN offset + limit ELSE Len(rows))

\* The query of GET /api/v1/results.
SelectResults(table, q) ==
    LimitOffset(
        OrderByTimestampDesc({table[i] : i \in {j \in DOMAIN table : Matches(table[j], q)}}),
        ParseInt(Default(q.limit, DefaultLimit)).n,
        ParseInt(Default(q.offset, DefaultOffset)).n)

\* The statement fails for a limit or an offset that is no number, or is
\* negative.
QueryWellFormed(q) ==
    /\ ~ParseInt(Default(q.limit, DefaultLimit)).nan
    /\ ~ParseInt(Default(q.offset, DefaultOffset)).nan
    /\ ParseInt(Default(q.limit, DefaultLimit)).n >= 0
    /\ ParseInt(Default(q.offset, DefaultOffset)).n >= 0

\* ORDER BY last_seen DESC over a set of agent rows.
RECURSIVE OrderByLastSeenDesc(_)
OrderByLastSeenDesc(rows) ==
    IF rows = {} THEN <<>>
    ELSE LET first == CHOOSE r \in rows : \A o \in rows : r.last_seen >= o.last_seen
         IN <<first>> \o OrderByLastSeenDesc(rows \ {first})

\* SELECT * FROM agents [WHERE is_active = TRUE] ORDER BY last_seen DESC
SelectAgents(table, active_only) ==
    OrderByLastSeenDesc(IF Default(active_only, <<"true">>) = <<"true">>
                        THEN {row \in table : row.is_active}
                        ELSE table)

----------------------------------------------------------------------------
(* Request inputs *)

\* Objects are the sequence of their keys and values.
Metadata1 == <<"os", "linux">>
Metadata2 == <<"user", "root">>

BeaconBodies ==
    {[agent_id |-> a, hostname |-> p[1], platform |-> p[2], version |-> p[3],
      metadata |-> p[4]] :
        a \in {Absent} \cup {<<i>> : i \in AgentIds},
        p \in {<<Absent, Absent, Absent, Absent>>,
               <<<<"h1">>, <<"linux">>, <<"1.0">>, Metadata1>>,
               <<<<"h2">>, <<"darwin">>, <<"2.0">>, Metadata2>>}}

ResultBodies ==
    {[agent_id |-> a, module |-> m, target |-> Absent,
      result_type |-> Absent, data |-> d, severity |-> s, metadata |-> Absent] :
        a \in {Absent} \cup {<<i>> : i \in AgentIds},
        m \in {Absent, <<"port-scan">>, <<"dns-enum">>},
        d \in {Absent, <<"ports", "80,443">>},
        s \in {Absent, <<"high">>, <<"low">>, <<"urgent">>}}

Queries ==
    {[agent_id |-> a, module |-> m, severity |-> s, since |-> t,
      limit |-> l[1], offset |-> l[2]] :
        a \in {Absent, <<"a1">>},
        m \in {Absent, <<"port-scan">>},
        s \in {Absent, <<"high">>},
        t \in {NoTime, 1},
        l \in {<<Absent, Absent>>, <<<<"1">>, Absent>>, <<<<"1">>, <<"1">>>>,
               <<<<"2">>, Absent>>, <<Absent, <<"1">>>>, <<<<"abc">>, Absent>>,
               <<Absent, <<"-1">>>>}}

ActiveOnlyChoices == {Absent, <<"true">>, <<"false">>}

NoInput == [none |-> TRUE]

----------------------------------------------------------------------------
(* Requests *)

\* No call has failed under the request.
NoFault == ""

\* error.message of a Redis command that failed.
CacheError == "The client is closed"

\* A request: where it waits (pc), what it asks (target, ip), the server
\* instance that took it (instance), what the chain
\* has set on it (apiKey, validKey, input), its response (status, error, rows),
\* and its history: the steps taken (trace), the is_active column as the
\* credential lookup found it (lookup), whether it has written to a table
\* (wrote) or been served rows of one (served), and the RateLimit-* headers the
\* limiter's own response carries (rateLimit), and error.message of the store
\* or cache call that failed under it, as the catch block logs it (fault).
Idle == [pc |-> "idle", target |-> "", ip |-> "", instance |-> "", apiKey |-> Absent,
         validKey |-> NoKey, input |-> NoInput, status |-> 0, error |-> "",
         rows |-> <<>>, trace |-> <<>>, lookup |-> <<>>, wrote |-> FALSE,
         served |-> FALSE, rateLimit |-> NoRateLimit, fault |-> NoFault]

\* res.status(s).json(...): the response ends the request.
Responded(r, s, e) ==
    [r EXCEPT !.pc = "done", !.status = s, !.error = e,
              !.trace = r.trace \o <<"response">>]

Did(r, event) == [r EXCEPT !.trace = r.trace \o <<event>>]

\* The history of a client's current window: when it started and how many of
\* its requests the limiter has let through since.
NoWindow == [start |-> NoTime, admitted |-> 0]

WindowAt(w, t) == IF w.start # NoTime /\ t < w.start + WindowMs THEN w ELSE [start |-> t, admitted |-> 0]

----------------------------------------------------------------------------
(* The handler chain, from one await to the next *)

\* A variant: the 401 for a missing key is sent without return, and the
\* function runs on.
AuthenticateNoReturn(r, headers) ==
    LET apiKey == ExtractApiKey(headers)
        r1 == [Did(r, "auth") EXCEPT !.apiKey = apiKey]
    IN IF ~Truthy(apiKey)
       THEN [Responded(r1, 401, "API key required") EXCEPT !.pc = "auth_select"]
       ELSE [r1 EXCEPT !.pc = "auth_select"]

\* A variant: the credential lookup is made before the key is looked at.
AuthenticateLookupFirst(r, headers) ==
    [Did(r, "auth") EXCEPT !.apiKey = ExtractApiKey(headers), !.pc = "auth_select"]

\* authenticateApiKey up to its first await.
Authenticate(r, headers) ==
    LET apiKey == ExtractApiKey(headers)
        r1 == [Did(r, "auth") EXCEPT !.apiKey = apiKey]
    IN IF ~Truthy(apiKey)
       THEN Responded(r1, 401, "API key required")
       ELSE [r1 EXCEPT !.pc = "auth_select"]

\* The limiter's next(): the route that matches, up to its first await.
Route(r, headers) ==
    CASE r.target = "GET /api/v1/status" -> [r EXCEPT !.pc = "status_db"]
      [] r.target = "GET /api/v1/modules" -> [r EXCEPT !.pc = "modules_db"]
      [] r.target \in ProtectedRoutes -> Authenticate(r, headers)
      [] OTHER -> Responded(r, 404, "Endpoint not found")

\* authenticateApiKey's next(): the route handler up to its first await.
Handler(r, input) ==
    LET r1 == [r EXCEPT !.input = input]
    IN CASE r.target = "POST /api/v1/beacon" ->
              IF ValidateBeacon(input) # ""
              THEN Responded(Did(r1, "validate"), 400, ValidateBeacon(input))
              ELSE [Did(r1, "validate") EXCEPT !.pc = "beacon_upsert"]
         [] r.target = "POST /api/v1/results" ->
              IF ValidateResult(input) # ""
              THEN Responded(Did(r1, "validate"), 400, ValidateResult(input))
              ELSE [Did(r1, "validate") EXCEPT !.pc = "result_insert"]
         [] r.target = "GET /api/v1/results" -> [r1 EXCEPT !.pc = "results_select"]
         [] OTHER -> [r1 EXCEPT !.pc = "agents_select"]

NoHeaders == [x_api_key |-> Absent, authorization |-> Absent]

HeadersFor(target) ==
    IF target \in ProtectedRoutes THEN HeaderChoices(Len(api_keys)) ELSE {NoHeaders}

InputsFor(r) ==
    IF r.pc # "auth_touch" THEN {NoInput}
    ELSE CASE r.target = "POST /api/v1/beacon" -> BeaconBodies
           [] r.target = "POST /api/v1/results" -> ResultBodies
           [] r.target = "GET /api/v1/results" -> Queries
           [] OTHER -> {[active_only |-> a] : a \in ActiveOnlyChoices}

----------------------------------------------------------------------------
(* The process *)

\* The value of JWT_SECRET in a deployment that sets it.
JwtSecret == <<"change-me">>

\* process.exit has not been called.
NoExit == 0 - 1

\* The process as the module leaves it once loaded: CONFIG read from the
\* environment, the pool created, the Redis client created and its connect()
\* called but not awaited by anything that follows, app.listen not yet
\* called, no server.close callback registered.
Loaded(secret) ==
    [jwtSecret |-> secret, phase |-> "starting", pool |-> "open",
     cache |-> "connecting", closing |-> <<>>, exitCode |-> NoExit]

\* The process of a deployment that sets JWT_SECRET, listening, with the
\* Redis connection established.
Running == [Loaded(JwtSecret) EXCEPT !.phase = "listening", !.cache = "open"]

----------------------------------------------------------------------------
(* Actions *)

Init ==
    /\ now = 0
    /\ api_keys = <<>>
    /\ agents = {}
    /\ beacons = <<>>
    /\ results = <<>>
    /\ redis = <<>>
    /\ req = [s \in Slots |-> Idle]
    /\ window = [c \in Clients |-> NoWindow]
    /\ proc = Running

\* The hits a client's window would hold once its waiting requests are counted.
Pending(ip) ==
    Cardinality({s \in Slots : req[s].pc = "limiter" /\ req[s].ip = ip})
    + (IF Live(redis, CounterKey("api-1", ip), now)
       THEN redis[CounterKey("api-1", ip)].hits ELSE 0)

\* A request arrives: logged, then handed to the limiter when its path is
\* under /api/, and to its route otherwise.
Arrive(s, target, ip, instance) ==
    /\ proc.phase = "listening"
    /\ req[s].pc = "idle"
    /\ \A o \in Slots : o < s => req[o].pc # "idle"
    /\ Pending(ip) <= RateLimitMax
    /\ \E headers \in (IF Limited(PathOf(target)) THEN {NoHeaders} ELSE HeadersFor(target)) :
         LET r == [Idle EXCEPT !.target = target, !.ip = ip, !.instance = instance]
         IN req' = [req EXCEPT ![s] =
                      IF Limited(PathOf(target)) THEN [r EXCEPT !.pc = "limiter"]
                      ELSE Route(r, headers)]
    /\ UNCHANGED <<now, api_keys, agents, beacons, results, redis, window, proc>>

\* app.use((err, req, res, next) => ...): an error passed to next() is
\* answered 500.
ErrorHandler(r) == Responded(r, 500, "Internal server error")

\* The limiter: the store's increment returns, and the request is answered
\* 429 or handed on; an increment that fails (sendCommand rejects) is an
\* error passed to next().
Limiter(s) ==
    /\ req[s].pc = "limiter"
    /\ proc.cache # "connecting"
    /\ \E headers \in HeadersFor(req[s].target), up \in BOOLEAN :
         LET key == CounterKey(req[s].instance, req[s].ip)
             store == Increment(redis, key, now)
             r == Did(req[s], "rate")
             w == WindowAt(window[r.ip], now)
         IN CASE ~up ->
                   /\ req' = [req EXCEPT ![s] = ErrorHandler([r EXCEPT !.fault = CacheError])]
                   /\ UNCHANGED <<redis, window>>
              [] up /\ OverLimit(store[key].hits) ->
                   /\ redis' = store
                   /\ req' = [req EXCEPT ![s] =
                                [Responded(r, 429, "Too many requests, please try again later")
                                   EXCEPT !.rateLimit = RateLimitHeaders(store[key], now)]]
                   /\ window' = [window EXCEPT ![r.ip] = w]
              [] OTHER ->
                   /\ redis' = store
                   /\ req' = [req EXCEPT ![s] = Route(r, headers)]
                   /\ window' = [window EXCEPT ![r.ip] = [w EXCEPT !.admitted = @ + 1]]
    /\ UNCHANGED <<now, api_keys, agents, beacons, results, proc>>

\* The statement a request waits on, by its place in the handler chain.
DbPcs == {"auth_select", "auth_touch", "beacon_upsert", "beacon_insert",
          "result_insert", "results_select", "agents_select", "status_db",
          "modules_db"}

\* What the pending pool.query of request r does to the tables when it succeeds.
ApiKeysAfter(r) ==
    IF r.pc = "auth_touch" THEN TouchKey(api_keys, r.validKey, now) ELSE api_keys

AgentsAfter(r) ==
    CASE r.pc = "beacon_upsert" -> UpsertAgent(agents, r.input, r.ip, now)
      [] r.pc = "beacon_insert" -> UpdateAgentLastSeen(agents, BeaconRow(r.input, r.ip, now))
      [] OTHER -> agents

\* A variant: the beacon record is written with the upsert as well.
BeaconsAfterWithUpsert(r) ==
    IF r.pc \in {"beacon_upsert", "beacon_insert"}
    THEN Append(beacons, BeaconRow(r.input, r.ip, now))
    ELSE beacons

BeaconsAfter(r) ==
    IF r.pc = "beacon_insert" THEN Append(beacons, BeaconRow(r.input, r.ip, now))
    ELSE beacons

\* A variant: the insert takes the id of the newest row and replaces it.
ResultsAfterReplacing(r) ==
    IF r.pc = "result_insert" /\ results # <<>>
    THEN [results EXCEPT ![Len(results)] = ResultRow(r.input, Len(results), now)]
    ELSE IF r.pc = "result_insert" THEN <<ResultRow(r.input, 1, now)>> ELSE results

ResultsAfter(r) ==
    IF r.pc = "result_insert" THEN Append(results, ResultRow(r.input, Len(results) + 1, now))
    ELSE results

\* Whether the statement itself can succeed on the tables as they are.
StatementOk(r) ==
    CASE r.pc = "beacon_insert" -> ForeignKeyHolds(agents, r.input.agent_id)
      [] r.pc = "result_insert" -> ForeignKeyHolds(agents, r.input.agent_id)
      [] r.pc = "results_select" -> QueryWellFormed(r.input)
      [] OTHER -> TRUE

\* error.message of a call that failed: the connection is gone, or the
\* statement is refused by the database.
ErrorMessage(r, up) ==
    CASE ~up -> "Connection terminated unexpectedly"
      [] r.pc \in {"beacon_insert", "result_insert"} -> "violates foreign key constraint"
      [] OTHER -> "invalid input syntax for type bigint"

\* A variant: the catch block answers with error.message.
FailureOfWithMessage(r) == Responded(r, 500, r.fault)

\* The catch block's response for the statement that failed.
FailureOf(r) ==
    CASE r.pc \in {"auth_select", "auth_touch"} -> Responded(r, 500, "Authentication failed")
      [] r.pc \in {"beacon_upsert", "beacon_insert"} -> Responded(r, 500, "Beacon failed")
      [] r.pc = "result_insert" -> Responded(r, 500, "Failed to submit result")
      [] r.pc = "results_select" -> Responded(r, 500, "Failed to query results")
      [] r.pc = "agents_select" -> Responded(r, 500, "Failed to list agents")
      [] r.pc = "status_db" -> Responded(r, 503, "Service unavailable")
      [] OTHER -> Responded(r, 500, "Failed to fetch modules")

\* The continuation of the await when the statement succeeded.
SuccessOf(r, input) ==
    CASE r.pc = "auth_select" ->
           LET validKey == FindValidKey(r.apiKey, SelectActiveKeys(api_keys))
               r1 == [r EXCEPT !.lookup = [i \in DOMAIN api_keys |-> api_keys[i].is_active]]
           IN IF validKey = NoKey
              THEN Responded(r1, 401, "Invalid API key")
              ELSE [r1 EXCEPT !.pc = "auth_touch", !.validKey = validKey]
      [] r.pc = "auth_touch" -> Handler(r, input)
      [] r.pc = "beacon_upsert" -> [r EXCEPT !.pc = "beacon_insert", !.wrote = TRUE]
      [] r.pc = "beacon_insert" -> Responded([r EXCEPT !.wrote = TRUE], 200, "")
      [] r.pc = "result_insert" ->
           Responded([r EXCEPT !.wrote = TRUE,
                               !.rows = <<[id |-> Len(results) + 1, timestamp |-> now]>>],
                     201, "")
      [] r.pc = "results_select" ->
           Responded([r EXCEPT !.served = TRUE, !.rows = SelectResults(results, r.input)],
                     200, "")
      [] r.pc = "agents_select" ->
           Responded([r EXCEPT !.served = TRUE,
                               !.rows = SelectAgents(agents, r.input.active_only)],
                     200, "")
      [] r.pc = "status_db" -> [r EXCEPT !.pc = "status_ping"]
      [] OTHER -> Responded(r, 200, "")

\* A pending pool.query returns, with rows or with an error, and the code
\* that awaited it runs to its next await or to its response.
PoolQuery(s) ==
    /\ req[s].pc \in DbPcs
    /\ \E up \in BOOLEAN, input \in InputsFor(req[s]) :
         LET r == Did(req[s], req[s].pc)
         IN IF up /\ StatementOk(r)
            THEN /\ api_keys' = ApiKeysAfter(r)
                 /\ agents' = AgentsAfter(r)
                 /\ beacons' = BeaconsAfter(r)
                 /\ results' = ResultsAfter(r)
                 /\ req' = [req EXCEPT ![s] = SuccessOf(r, input)]
            ELSE /\ req' = [req EXCEPT ![s] =
                              FailureOf([r EXCEPT !.fault = ErrorMessage(r, up)])]
                 /\ UNCHANGED <<api_keys, agents, beacons, results>>
    /\ UNCHANGED <<now, redis, window, proc>>

\* The health check's redisClient.ping() returns.
StatusPing(s) ==
    /\ req[s].pc = "status_ping"
    /\ \E up \in BOOLEAN :
         LET r == Did(req[s], "status_ping")
         IN req' = [req EXCEPT ![s] =
                      IF up THEN Responded(r, 200, "")
                      ELSE Responded([r EXCEPT !.fault = CacheError],
                                     503, "Service unavailable")]
    /\ UNCHANGED <<now, api_keys, agents, beacons, results, redis, window, proc>>

\* The response has been sent; the slot serves the next request.
Complete(s) ==
    /\ req[s].pc = "done"
    /\ req' = [req EXCEPT ![s] = Idle]
    /\ UNCHANGED <<now, api_keys, agents, beacons, results, redis, window, proc>>

\* Time passes; Redis drops the keys whose expiry is reached.
Tick ==
    /\ now < MaxTime
    /\ now' = now + 1
    /\ redis' = Expire(redis, now + 1)
    /\ window' = [c \in Clients |-> IF WindowAt(window[c], now + 1) = window[c]
                                     THEN window[c] ELSE NoWindow]
    /\ UNCHANGED <<api_keys, agents, beacons, results, req, proc>>

\* The key-generation CLI: a fresh secret, its hash, one row.
GenerateApiKey(name) ==
    /\ Len(api_keys) < MaxKeys
    /\ LET i == Len(api_keys) + 1
       IN api_keys' = Append(api_keys, ApiKeyRow(BcryptHash(NewApiKey(i), ToString(i)), name))
    /\ UNCHANGED <<now, agents, beacons, results, redis, req, window, proc>>

\* UPDATE api_keys SET is_active = FALSE WHERE name = $1
DisableApiKey(name) ==
    /\ \E i \in DOMAIN api_keys : api_keys[i].name = name /\ api_keys[i].is_active
    /\ api_keys' = [i \in DOMAIN api_keys |->
                      IF api_keys[i].name = name
                      THEN [api_keys[i] EXCEPT !.is_active = FALSE] ELSE api_keys[i]]
    /\ UNCHANGED <<now, agents, beacons, results, redis, req, window, proc>>

\* The maintenance sweep, run from outside the server.
Sweep ==
    /\ agents' = MarkInactiveAgents(agents, now)
    /\ UNCHANGED <<now, api_keys, beacons, results, redis, req, window, proc>>

Next ==
    \/ \E s \in Slots, target \in Targets : Arrive(s, target, "10.0.0.1", "api-1")
    \/ \E s \in Slots : Limiter(s)
    \/ \E s \in Slots : PoolQuery(s)
    \/ \E s \in Slots : StatusPing(s)
    \/ \E s \in Slots : Complete(s)
    \/ Tick
    \/ \E name \in KeyNames : GenerateApiKey(name)
    \/ \E name \in KeyNames : DisableApiKey(name)
    \/ Sweep

Spec == Init /\ [][Next]_vars

\* Two clients and two instances against the limiter: a public route, a
\* protected route and a path outside /api/, with no key provisioned.
RateTargets == {"GET /api/v1/status", "POST /api/v1/beacon", "GET /"}

RateNext ==
    \/ \E s \in Slots, target \in RateTargets, ip \in Clients, instance \in Instances :
         Arrive(s, target, ip, instance)
    \/ \E s \in Slots : Limiter(s)
    \/ \E s \in Slots : PoolQuery(s)
    \/ \E s \in Slots : StatusPing(s)
    \/ \E s \in Slots : Complete(s)
    \/ Tick

RateSpec == Init /\ [][RateNext]_vars

----------------------------------------------------------------------------
(* The result query as a function of the result store and req.query *)

\* The rows a result store may hold: those of bodies the schema accepts.
StoredBodies == {v \in ResultBodies : ValidateResult(v) = ""}

\* Result stores of up to two rows, in insertion order.
SmallStores ==
    {<<>>}
    \cup {<<ResultRow(v, 1, t)>> : v \in StoredBodies, t \in {0, 1}}
    \cup {<<ResultRow(v[1], 1, t[1]), ResultRow(v[2], 2, t[2])>> :
              v \in StoredBodies \X StoredBodies,
              t \in {<<0, 0>>, <<0, 1>>, <<1, 1>>}}

\* A result store of one row more than the default limit.
LargeStore ==
    [i \in 1..(ParseInt(DefaultLimit).n + 1) |->
        ResultRow([agent_id |-> <<"a1">>, module |-> <<"port-scan">>, target |-> Absent,
                   result_type |-> Absent, data |-> <<"ports", "80,443">>,
                   severity |-> IF i % 2 = 0 THEN <<"high">> ELSE Absent,
                   metadata |-> Absent],
                  i, IF i <= 2 THEN 0 ELSE 1)]

\* The agents the rows of a store refer to, each registered at time 0.
Registered(table) ==
    UNION {UpsertAgent({}, [agent_id |-> table[i].agent_id, hostname |-> Absent,
                            platform |-> Absent, version |-> Absent, metadata |-> Absent],
                       "10.0.0.1", 0) : i \in DOMAIN table}

\* The handler of GET /api/v1/results at its await, for one store and one
\* req.query.
QueryInit ==
    \E table \in SmallStores \cup {LargeStore}, q \in Queries :
        /\ now = 1
        /\ api_keys = <<>>
        /\ agents = Registered(table)
        /\ beacons = <<>>
        /\ results = table
        /\ redis = <<>>
        /\ req = [s \in Slots |->
                    IF s = 1
                    THEN Handler([Idle EXCEPT !.target = "GET /api/v1/results",
                                              !.ip = "10.0.0.1", !.instance = "api-1",
                                              !.pc = "auth_touch"], q)
                    ELSE Idle]
        /\ window = [c \in Clients |-> NoWindow]
        /\ proc = Running

QueryNext ==
    \/ \E s \in Slots : PoolQuery(s)
    \/ \E s \in Slots : Complete(s)

QuerySpec == QueryInit /\ [][QueryNext]_vars

----------------------------------------------------------------------------
(* The write handlers, entered as authenticateApiKey's next() enters them *)

\* req.body of the requests that enter the handlers: check-ins of one agent,
\* results for an agent that may have checked in and for one that has not,
\* and a body each schema refuses.
HandlerBodies(target) ==
    IF target = "POST /api/v1/beacon"
    THEN {v \in BeaconBodies :
             \/ v.agent_id = <<"a1">> /\ v.hostname \in {Absent, <<"h1">>}
             \/ v.agent_id = Absent /\ v.hostname = Absent}
    ELSE {v \in ResultBodies :
             /\ v.data # Absent /\ v.severity = <<"high">>
             /\ \/ v.module = <<"port-scan">> /\ v.agent_id # Absent
                \/ v.module = Absent /\ v.agent_id = <<"a1">>}

\* A request as authenticateApiKey holds it once the loop has matched row id:
\* validKey set, the touch next.
Matched(target, id) ==
    [Idle EXCEPT !.target = target, !.ip = "10.0.0.1", !.instance = "api-1",
                 !.pc = "auth_touch", !.apiKey = NewApiKey(id), !.validKey = id,
                 !.lookup = [i \in DOMAIN api_keys |-> api_keys[i].is_active],
                 !.trace = <<"rate", "auth", "auth_select">>]

\* A request as authenticateApiKey leaves it at next(): the key verified as
\* credential 1, req.apiKey set.
Verified(target) == Did(Matched(target, 1), "auth_touch")

InFlight == Cardinality({s \in Slots : req[s].pc \notin {"idle", "done"}})

\* next() of authenticateApiKey: the handler of the route runs to its first
\* await.
Enter(s, target, input) ==
    /\ req[s].pc = "idle"
    /\ Len(beacons) + Len(results) + InFlight < MaxRows
    /\ req' = [req EXCEPT ![s] = Handler(Verified(target), input)]
    /\ UNCHANGED <<now, api_keys, agents, beacons, results, redis, window, proc>>

HandlerInit ==
    /\ now = 0
    /\ api_keys = <<ApiKeyRow(BcryptHash(NewApiKey(1), "1"), "old-key")>>
    /\ agents = {}
    /\ beacons = <<>>
    /\ results = <<>>
    /\ redis = <<>>
    /\ req = [s \in Slots |-> Idle]
    /\ window = [c \in Clients |-> NoWindow]
    /\ proc = Running

HandlerNext ==
    \/ \E s \in Slots, target \in {"POST /api/v1/beacon", "POST /api/v1/results"} :
         \E input \in HandlerBodies(target) : Enter(s, target, input)
    \/ \E s \in Slots : PoolQuery(s)
    \/ \E s \in Slots : Complete(s)
    \/ Tick

HandlerSpec == HandlerInit /\ [][HandlerNext]_vars

----------------------------------------------------------------------------
(* Startup and shutdown *)

Signals == {"SIGTERM", "SIGINT"}

\* No connection is open: every request has been answered.
Drained == \A s \in Slots : req[s].pc = "idle"

\* await redisClient.connect() returns: the connection is established and the
\* commands the client held are sent.
RedisConnected ==
    /\ proc.cache = "connecting" /\ proc.phase # "exited"
    /\ proc' = [proc EXCEPT !.cache = "open"]
    /\ req' = [s \in Slots |->
                 IF req[s].pc = "limiter_queued"
                 THEN [req[s] EXCEPT !.pc = "limiter"] ELSE req[s]]
    /\ UNCHANGED <<now, api_keys, agents, beacons, results, redis, window>>

\* sendCommand of the limiter's store while the client is still connecting:
\* redisClient.sendCommand(args) is called on the client as it is.  What the
\* client does with the command is the library's: it rejects it, and the
\* error handler answers, or it holds it until the connection is there.
SendUnconnected(s) ==
    /\ req[s].pc = "limiter" /\ proc.cache = "connecting"
    /\ \/ req' = [req EXCEPT ![s] =
                    ErrorHandler([Did(req[s], "rate") EXCEPT !.fault = CacheError])]
       \/ req' = [req EXCEPT ![s].pc = "limiter_queued"]
    /\ UNCHANGED <<now, api_keys, agents, beacons, results, redis, window, proc>>

\* app.listen(CONFIG.port, ...): the server accepts connections.
Listen ==
    /\ proc.phase = "starting"
    /\ proc' = [proc EXCEPT !.phase = "listening"]
    /\ UNCHANGED <<now, api_keys, agents, beacons, results, redis, req, window>>

\* process.on(sig, ...): server.close(callback).  The server stops accepting
\* and the callback waits for the server's 'close'.
Signal(sig) ==
    /\ proc.phase \in {"listening", "closed"}
    /\ Len(proc.closing) < MaxSignals
    /\ proc' = [proc EXCEPT !.phase = "closed",
                            !.closing = Append(@, [signal |-> sig, pc |-> "on_close"])]
    /\ UNCHANGED <<now, api_keys, agents, beacons, results, redis, req, window>>

\* pool.end() called while the pool is ending or ended rejects; nothing
\* handles the rejection of the callback's promise, and it ends the process.
PoolEndRejected(i) ==
    [proc EXCEPT !.closing[i].pc = "rejected", !.phase = "exited", !.exitCode = 1]

\* 'close': the connections have ended and callback i runs to its first
\* await, pool.end().
CloseCallback(i) ==
    /\ proc.phase = "closed" /\ Drained
    /\ i \in DOMAIN proc.closing /\ proc.closing[i].pc = "on_close"
    /\ proc' = IF proc.pool = "open"
               THEN [proc EXCEPT !.pool = "ending", !.closing[i].pc = "pool_end"]
               ELSE PoolEndRejected(i)
    /\ UNCHANGED <<now, api_keys, agents, beacons, results, redis, req, window>>

\* await pool.end() returns; the callback calls redisClient.quit().
PoolEnded(i) ==
    /\ proc.phase = "closed"
    /\ i \in DOMAIN proc.closing /\ proc.closing[i].pc = "pool_end"
    /\ proc' = [proc EXCEPT !.pool = "ended", !.closing[i].pc = "redis_quit"]
    /\ UNCHANGED <<now, api_keys, agents, beacons, results, redis, req, window>>

\* await redisClient.quit() returns; process.exit(0).
QuitAndExit(i) ==
    /\ proc.phase = "closed"
    /\ i \in DOMAIN proc.closing /\ proc.closing[i].pc = "redis_quit"
    /\ proc' = [proc EXCEPT !.cache = "closed", !.closing[i].pc = "exit",
                            !.phase = "exited", !.exitCode = 0]
    /\ UNCHANGED <<now, api_keys, agents, beacons, results, redis, req, window>>

\* The process with JWT_SECRET set or not set, serving health checks, and the
\* signals sent to it.
LifeInit ==
    /\ now = 0
    /\ api_keys = <<>>
    /\ agents = {}
    /\ beacons = <<>>
    /\ results = <<>>
    /\ redis = <<>>
    /\ req = [s \in Slots |-> Idle]
    /\ window = [c \in Clients |-> NoWindow]
    /\ \E secret \in {Absent, JwtSecret} : proc = Loaded(secret)

LifeNext ==
    \/ Listen
    \/ RedisConnected
    \/ \E s \in Slots : SendUnconnected(s)
    \/ \E s \in Slots :
         Arrive(s, "GET /api/v1/status", "10.0.0.1", "api-1")
    \/ \E s \in Slots : Limiter(s)
    \/ \E s \in Slots : PoolQuery(s)
    \/ \E s \in Slots : StatusPing(s)
    \/ \E s \in Slots : Complete(s)
    \/ Tick
    \/ \E sig \in Signals : Signal(sig)
    \/ \E i \in 1..MaxSignals : CloseCallback(i)
    \/ \E i \in 1..MaxSignals : PoolEnded(i)
    \/ \E i \in 1..MaxSignals : QuitAndExit(i)

LifeSpec == LifeInit /\ [][LifeNext]_vars

----------------------------------------------------------------------------
(* authenticateApiKey, with the match of bcrypt.compare as an input *)

\* A request reaches authenticateApiKey with its headers.
Present(s, headers) ==
    /\ req[s].pc = "idle"
    /\ req' = [req EXCEPT ![s] =
                 Authenticate([Idle EXCEPT !.target = "GET /api/v1/agents",
                                           !.ip = "10.0.0.1", !.instance = "api-1",
                                           !.trace = <<"rate">>], headers)]
    /\ UNCHANGED <<now, api_keys, agents, beacons, results, redis, window, proc>>

\* The loop over the selected rows has matched row id for a request that
\* presented its secret.
Match(s, id) ==
    /\ req[s].pc = "idle"
    /\ id \in DOMAIN api_keys /\ api_keys[id].is_active
    /\ req' = [req EXCEPT ![s] = Matched("GET /api/v1/agents", id)]
    /\ UNCHANGED <<now, api_keys, agents, beacons, results, redis, window, proc>>

AuthNext ==
    \/ \E s \in Slots : \E headers \in HeaderChoices(Len(api_keys)) : Present(s, headers)
    \/ \E s \in Slots, id \in 1..MaxKeys : Match(s, id)
    \/ \E s \in Slots : PoolQuery(s)
    \/ \E s \in Slots : Complete(s)
    \/ Tick
    \/ \E name \in KeyNames : GenerateApiKey(name)
    \/ \E name \in KeyNames : DisableApiKey(name)

AuthSpec == Init /\ [][AuthNext]_vars

----------------------------------------------------------------------------
(* Properties *)

Events(r) == {r.trace[i] : i \in DOMAIN r.trace}

\* The limiter's increment failed under the request: the error handler has
\* answered it.
LimiterFailed(r) == r.pc = "done" /\ r.status = 500 /\ r.error = "Internal server error"

Done(r) == r.pc = "done"

\* The secret belongs to row i of api_keys.
SecretOf(apiKey, i) == i \in DOMAIN api_keys /\ BcryptCompare(apiKey, api_keys[i].key_hash)

\* The request presents nothing, or a value that no row of api_keys was made from.
Unprovisioned(r) ==
    ~Truthy(r.apiKey) \/ \A i \in DOMAIN api_keys : ~SecretOf(r.apiKey, i)

\* The credential lookup of the request has returned its rows.
LookedUp(r) ==
    /\ "auth_select" \in Events(r)
    /\ ~(r.status = 500 /\ "auth_touch" \notin Events(r))

\* The request presented the secret of a credential that was active (inactive)
\* when its lookup ran.
PresentedActive(r) ==
    LookedUp(r) /\ \E i \in DOMAIN r.lookup : r.lookup[i] /\ SecretOf(r.apiKey, i)

PresentedInactive(r) ==
    LookedUp(r) /\ \E i \in DOMAIN r.lookup : ~r.lookup[i] /\ SecretOf(r.apiKey, i)

\* C1: on a protected endpoint a request whose credential is missing or was
\* never provisioned never enters a route handler: it has written to no table
\* and been served no rows, and once answered it carries the 401 of the auth
\* stage, unless the limiter answered first (429, or 500 when its counter
\* could not be reached) or the credential lookup itself failed (500,
\* Authentication failed).
C1_UnverifiedNeverServed ==
    \A s \in Slots :
        LET r == req[s]
        IN (r.target \in ProtectedRoutes /\ Unprovisioned(r)) =>
             /\ ~r.wrote /\ ~r.served /\ r.rows = <<>>
             /\ r.validKey = NoKey
             /\ r.pc \in {"limiter", "auth_select", "done"}
             /\ Done(r) => \/ r.status = 401
                           \/ r.status = 429 /\ r.trace = <<"rate", "response">>
                           \/ LimiterFailed(r) /\ r.trace = <<"rate", "response">>
                           \/ r.status = 500 /\ r.error = "Authentication failed"

\* C1 witness: with an active credential in the table, one request without a
\* key and one with a value never issued have both been answered 401.
C1_Witness ==
    /\ \E i \in DOMAIN api_keys : api_keys[i].is_active
    /\ \E s \in Slots :
         /\ req[s].target \in ProtectedRoutes /\ Done(req[s])
         /\ req[s].status = 401 /\ req[s].error = "API key required"
    /\ \E s \in Slots :
         /\ req[s].target \in ProtectedRoutes /\ Done(req[s])
         /\ Truthy(req[s].apiKey) /\ Unprovisioned(req[s])
         /\ req[s].status = 401 /\ req[s].error = "Invalid API key"

\* C2: a request that presents the secret of a credential that is active at
\* its lookup passes verification as that credential; one that presents a value
\* differing from every active credential's secret fails verification.
C2_ProvisionedVerifies ==
    \A s \in Slots :
        LET r == req[s]
        IN LookedUp(r) =>
             IF PresentedActive(r)
             THEN /\ r.validKey # NoKey /\ r.lookup[r.validKey]
                  /\ SecretOf(r.apiKey, r.validKey)
                  /\ ~(r.status = 401)
             ELSE r.validKey = NoKey /\ r.status = 401

\* C3: only active credentials authenticate.  A request verifies only as a
\* credential that was active at its lookup; the secret of a credential whose
\* is_active is FALSE at the lookup is answered 401; and with no active
\* credential every presented secret is answered 401.
C3_OnlyActiveAuthenticate ==
    \A s \in Slots :
        LET r == req[s]
        IN /\ r.validKey # NoKey =>
                r.validKey \in DOMAIN r.lookup /\ r.lookup[r.validKey]
           /\ PresentedInactive(r) =>
                r.validKey = NoKey /\ Done(r) /\ r.status = 401
           /\ (LookedUp(r) /\ \A i \in DOMAIN r.lookup : ~r.lookup[i]) =>
                r.validKey = NoKey /\ Done(r) /\ r.status = 401

\* C3 witness: the secret of a disabled credential was presented, looked up
\* after the disabling, and answered 401.
C3_Witness ==
    \E s \in Slots :
        /\ PresentedInactive(req[s])
        /\ Done(req[s]) /\ req[s].status = 401 /\ req[s].error = "Invalid API key"

\* The stage of a step of the chain.
Stage(event) ==
    CASE event = "rate" -> 1
      [] event \in {"auth", "auth_select", "auth_touch"} -> 2
      [] event = "validate" -> 3
      [] event = "response" -> 5
      [] OTHER -> 4

\* What the route handler makes of a request whose auth has passed.
Handled(target, input) ==
    Handler([Idle EXCEPT !.target = target, !.pc = "auth_touch"], input)

\* C4: the steps of a request run in the order rate check, auth, validation,
\* business operation, response, and the first failing stage ends it: the
\* response is the last step, a 429 follows the rate check alone, a 401 follows
\* no validation and no store write, a 400 follows no store write, and a body
\* that its schema rejects is answered 400 by the handler before any statement.
C4_StagesInOrder ==
    /\ \A v \in BeaconBodies :
         ValidateBeacon(v) # "" =>
            LET h == Handled("POST /api/v1/beacon", v)
            IN h.pc = "done" /\ h.status = 400 /\ h.trace = <<"validate", "response">>
    /\ \A v \in ResultBodies :
         ValidateResult(v) # "" =>
            LET h == Handled("POST /api/v1/results", v)
            IN h.pc = "done" /\ h.status = 400 /\ h.trace = <<"validate", "response">>
    /\ \A s \in Slots :
        LET r == req[s]
            t == r.trace
        IN /\ \A i, j \in DOMAIN t : i < j => Stage(t[i]) <= Stage(t[j]) /\ t[i] # "response"
           /\ (Limited(PathOf(r.target)) /\ t # <<>>) => t[1] = "rate"
           /\ Done(r) = (t # <<>> /\ t[Len(t)] = "response")
           /\ r.status = 429 => t = <<"rate", "response">>
           /\ r.status = 401 => /\ \A e \in Events(r) : Stage(e) \in {1, 2, 5}
                                /\ "auth_touch" \notin Events(r)
                                /\ ~r.wrote /\ ~r.served
           /\ r.status = 400 => /\ \A e \in Events(r) : Stage(e) # 4
                                /\ ~r.wrote /\ ~r.served

\* C4 witness: one request answered 429 after the rate check alone, and one
\* answered 401 after rate check and credential lookup, with no later stage.
C4_Witness ==
    /\ \E s \in Slots : req[s].status = 429 /\ req[s].trace = <<"rate", "response">>
    /\ \E s \in Slots :
         /\ req[s].status = 401
         /\ req[s].trace = <<"rate", "auth", "auth_select", "response">>

\* The limiter has answered or handed on the request.
PastLimiter(r) == "rate" \in Events(r)

Admitted(r) == PastLimiter(r) /\ r.status # 429 /\ ~LimiterFailed(r)

\* C5: with a window of WindowMs and a maximum of RateLimitMax, the limiter
\* rejects a client's request exactly when RateLimitMax requests of that client
\* have been admitted in the client's current window: requests 1..N of a window
\* are admitted, request N+1 is answered 429, and the first request after the
\* window has ended is admitted.  A request whose increment fails is not
\* admitted and leaves the window as it was.
C5_WindowOfMax ==
    [][\A s \in Slots :
         (req[s].pc = "limiter" /\ req'[s].pc # "limiter") =>
            LET w == WindowAt(window[req[s].ip], now)
            IN IF LimiterFailed(req'[s])
               THEN window' = window /\ req'[s].trace = <<"rate", "response">>
               ELSE /\ (req'[s].status = 429) = (w.admitted >= RateLimitMax)
                    /\ req'[s].status # 429 =>
                         window'[req[s].ip] = [w EXCEPT !.admitted = @ + 1]]_vars

\* C5 witness: a client holds a 429 from a window that has ended and has had
\* its first request of the next window admitted.
C5_Witness ==
    \E c \in Clients, s, o \in Slots :
        /\ req[s].ip = c /\ req[s].status = 429
        /\ req[o].ip = c /\ Admitted(req[o])
        /\ window[c].start >= WindowMs /\ window[c].admitted = 1

\* C6: with several instances incrementing the one counter in Redis, the
\* requests of one client admitted by all instances together within one window
\* never exceed RateLimitMax.
C6_SharedCounter ==
    \A c \in Clients : window[c].admitted <= RateLimitMax

\* C6 witness: the client's window is full, one of its requests was admitted by
\* one instance and another was answered 429 by the other instance.
C6_Witness ==
    \E c \in Clients, s, o \in Slots :
        /\ window[c].admitted = RateLimitMax
        /\ req[s].ip = c /\ Admitted(req[s]) /\ req[s].instance = "api-1"
        /\ req[o].ip = c /\ req[o].status = 429 /\ req[o].instance = "api-2"

\* The hits counted for a client in Redis.
Hits(store, ip, t) ==
    IF Live(store, CounterKey("api-1", ip), t) THEN store[CounterKey("api-1", ip)].hits ELSE 0

----------------------------------------------------------------------------
(* The agent registry *)

IsBeacon(r) == r.target = "POST /api/v1/beacon"

\* A beacon of a provisioned client: it presented the secret of a credential
\* that was active at its lookup, and no statement of its own failed.
BeaconOfClient(r) ==
    IsBeacon(r) /\ PresentedActive(r) /\ Done(r) /\ r.status # 500

\* The attributes a beacon body and origin give an agent row.
FromBeacon(row, v, ip) ==
    /\ row.agent_id = v.agent_id /\ row.hostname = v.hostname
    /\ row.platform = v.platform /\ row.version = v.version
    /\ row.ip_address = ip /\ row.metadata = ObjectOr(v.metadata, EmptyObject)

RowsOf(table, id) == {row \in table : row.agent_id = id}

\* C8: the registry holds exactly one row per agent identifier that has
\* beaconed, with the attributes of the latest beacon: the beacon of a
\* provisioned client runs the upsert, and the upsert leaves one row for the
\* identifier, carrying that beacon's hostname, platform, version, origin and
\* metadata.
C8_OneRowLatestWins ==
    [][\A s \in Slots :
         LET r == req[s]
             r2 == req'[s]
         IN /\ (IsBeacon(r) /\ r.pc = "auth_select" /\ PresentedActive(r2)) =>
                 r2.pc = "auth_touch"
            /\ (r.pc = "beacon_upsert" /\ r2.pc = "beacon_insert") =>
                 /\ Cardinality(RowsOf(agents', r.input.agent_id)) = 1
                 /\ \A row \in RowsOf(agents', r.input.agent_id) :
                      FromBeacon(row, r.input, r.ip)
            /\ BeaconOfClient(r2) /\ r2.status = 200 =>
                 Cardinality(RowsOf(agents', r2.input.agent_id)) = 1]_vars

\* C9: two beacons for one identifier in flight together leave one row, whose
\* attributes all come from the same beacon.
C9_NeverAMixture ==
    /\ \A row \in agents :
         /\ Cardinality(RowsOf(agents, row.agent_id)) = 1
         /\ \E v \in BeaconBodies, ip \in Clients : FromBeacon(row, v, ip)
    /\ \A s, o \in Slots :
         (s # o /\ BeaconOfClient(req[s]) /\ BeaconOfClient(req[o])) =>
            /\ req[s].status \in {200, 400} /\ req[o].status \in {200, 400}
            /\ (req[s].status = 200 /\ req[o].status = 200
                /\ req[s].input.agent_id = req[o].input.agent_id) =>
                  \E row \in agents :
                      \/ FromBeacon(row, req[s].input, req[s].ip)
                      \/ FromBeacon(row, req[o].input, req[o].ip)

\* C10: a beacon that succeeds leaves its agent active with last_seen at the
\* time of the beacon, also when the sweep had marked the agent inactive, and
\* the beacon of a provisioned client with a valid body succeeds.
C10_BeaconRevives ==
    \A s \in Slots :
        LET r == req[s]
        IN /\ (IsBeacon(r) /\ r.pc \in {"beacon_insert", "done"} /\ r.wrote) =>
                \A row \in RowsOf(agents, r.input.agent_id) :
                    row.is_active \/ row.last_seen + StaleAfter < now
           /\ BeaconOfClient(r) =>
                \/ r.status = 400
                \/ /\ r.status = 200
                   /\ \E row \in RowsOf(agents, r.input.agent_id) : row.last_seen <= now

\* C11: an agent's first_seen is set when its identifier first beacons, and no
\* later step changes it: the beacon of a provisioned client with a valid body
\* leaves a row with first_seen set, and every step (a later beacon's upsert,
\* the trigger of the beacon log, the sweep) keeps the first_seen of each row
\* the registry already holds.
C11_FirstSeenKept ==
    [][/\ \A row \in agents : \E kept \in agents' :
            kept.agent_id = row.agent_id /\ kept.first_seen = row.first_seen
       /\ \A s \in Slots :
            LET r2 == req'[s]
            IN (BeaconOfClient(r2) /\ r2.status # 400) =>
                 \E row \in RowsOf(agents', r2.input.agent_id) :
                     row.first_seen # NoTime /\ row.first_seen <= now]_vars

\* C12: the beacon log is append-only with one row per check-in: every step
\* keeps the records the log already holds, a beacon answered 200 has appended
\* one record with its agent identifier, origin and metadata, and the check-in
\* of a provisioned client with a valid body is answered 200.
C12_BeaconLogAppendOnly ==
    [][/\ Len(beacons') >= Len(beacons)
       /\ SubSeq(beacons', 1, Len(beacons)) = beacons
       /\ \A s \in Slots :
            LET r == req[s]
                r2 == req'[s]
            IN /\ (IsBeacon(r) /\ r.pc = "beacon_insert" /\ r2.status = 200) =>
                    /\ Len(beacons') = Len(beacons) + 1
                    /\ beacons'[Len(beacons')].agent_id = r.input.agent_id
                    /\ beacons'[Len(beacons')].ip_address = r.ip
                    /\ beacons'[Len(beacons')].metadata = ObjectOr(r.input.metadata, EmptyObject)
               /\ (r.pc # "done" /\ BeaconOfClient(r2) /\ r2.status # 400) =>
                    r2.status = 200 /\ Len(beacons') = Len(beacons) + 1]_vars

----------------------------------------------------------------------------
(* The result store *)

IsSubmit(r) == r.target = "POST /api/v1/results"

\* A result submission of a provisioned client, answered, with no statement of
\* its own failed.
SubmitOfClient(r) ==
    IsSubmit(r) /\ PresentedActive(r) /\ Done(r) /\ r.status # 500

Levels == {<<"low">>, <<"medium">>, <<"high">>, <<"critical">>}

\* The submission lacks agent_id, module or data, or names a severity that is
\* none of the four levels.
Malformed(v) ==
    \/ v.agent_id = Absent \/ v.module = Absent \/ v.data = Absent
    \/ (v.severity # Absent /\ v.severity \notin Levels)

\* C13: a malformed result submission is rejected with a validation error and
\* the result store is unchanged, so every row of the store has a payload and a
\* severity that is absent or one of the four levels: the handler answers a
\* malformed body 400 before any statement, and the submission of a provisioned
\* client is answered 400 for a malformed body and 201 otherwise.
C13_MalformedResultRejected ==
    /\ \A v \in ResultBodies :
         Malformed(v) =>
            LET h == Handled("POST /api/v1/results", v)
            IN h.pc = "done" /\ h.status = 400 /\ ~h.wrote
    /\ \A i \in DOMAIN results :
         /\ results[i].data # Absent
         /\ results[i].severity = Absent \/ results[i].severity \in Levels
    /\ \A s \in Slots :
         SubmitOfClient(req[s]) =>
            /\ req[s].status \in {201, 400}
            /\ req[s].status = 400 <=> Malformed(req[s].input)
            /\ req[s].status = 400 => ~req[s].wrote

IsQuery(r) == r.target = "GET /api/v1/results"

\* A result query answered with rows.
Answered(r) == IsQuery(r) /\ Done(r) /\ r.status = 200

Descending(rows) ==
    \A i, j \in DOMAIN rows : i < j => rows[i].timestamp >= rows[j].timestamp

\* C14: for every combination of the filters agent_id, module, severity and
\* since, each row a result query returns satisfies every filter supplied (a
\* query for severity high returns no row of another severity), and the rows
\* are in descending order of timestamp.
C14_FiltersAndOrder ==
    \A s \in Slots :
        LET r == req[s]
            q == r.input
        IN Answered(r) =>
             /\ \A i \in DOMAIN r.rows :
                  /\ q.agent_id # Absent => r.rows[i].agent_id = q.agent_id
                  /\ q.module # Absent => r.rows[i].module = q.module
                  /\ q.severity # Absent => r.rows[i].severity = q.severity
                  /\ q.since # NoTime => r.rows[i].timestamp >= q.since
                  /\ \E k \in DOMAIN results : results[k] = r.rows[i]
             /\ Descending(r.rows)

\* C14 witness: a query for severity high and a minimum timestamp, over a store
\* holding an older row and a row of another severity, is answered with rows.
C14_Witness ==
    \E s \in Slots :
        /\ Answered(req[s])
        /\ req[s].input.severity = <<"high">> /\ req[s].input.since = 1
        /\ Len(req[s].rows) >= 2
        /\ \E k \in DOMAIN results : results[k].severity # <<"high">>
        /\ \E k \in DOMAIN results : results[k].timestamp < 1

\* The limit in effect: the caller's, or 100.
EffectiveLimit(q) == IF q.limit = Absent THEN 100 ELSE ParseInt(q.limit).n

\* C15: every result query is bounded: a query without a limit is answered
\* with at most 100 rows, and no answer carries more rows than the limit in
\* effect.
C15_QueryBounded ==
    \A s \in Slots :
        Answered(req[s]) => Len(req[s].rows) <= EffectiveLimit(req[s].input)

\* C15 witness: a query with no limit and no filter over a store of more than
\* 100 rows is answered with 100 rows.
C15_Witness ==
    \E s \in Slots :
        /\ Answered(req[s])
        /\ req[s].input.limit = Absent
        /\ Len(results) > 100
        /\ Len(req[s].rows) = 100

\* A request of a provisioned client, answered, with no statement of its own
\* failed.
OfClient(r) == PresentedActive(r) /\ Done(r) /\ r.status # 500

RowsFor(table, id) == {table[k] : k \in {j \in DOMAIN table : table[j].agent_id = id}}

\* C16: end to end, a submission with a module and a payload for an agent that
\* has beaconed is answered 201 with the id and timestamp of the row it stored,
\* and a query filtered by that agent's identifier is answered with exactly the
\* rows stored for that agent, payload included.
C16_SubmitThenQuery ==
    \A s \in Slots :
        LET r == req[s]
        IN /\ (IsSubmit(r) /\ OfClient(r)) =>
                /\ r.status \in {201, 400}
                /\ r.status = 400 <=> Malformed(r.input)
                /\ r.status = 201 => Len(r.rows) = 1
                /\ r.status = 201 => \E k \in DOMAIN results :
                     /\ results[k].id = r.rows[1].id
                     /\ results[k].timestamp = r.rows[1].timestamp
                     /\ results[k].agent_id = r.input.agent_id
                     /\ results[k].module = r.input.module
                     /\ results[k].data = r.input.data
           /\ (IsQuery(r) /\ OfClient(r)) =>
                /\ r.status = 200
                /\ (r.input.agent_id # Absent /\ r.input.module = Absent
                    /\ r.input.severity = Absent /\ r.input.since = NoTime
                    /\ r.input.limit = Absent /\ r.input.offset = Absent) =>
                     {r.rows[i] : i \in DOMAIN r.rows} = RowsFor(results, r.input.agent_id)

----------------------------------------------------------------------------
(* The agent listing *)

IsList(r) == r.target = "GET /api/v1/agents"

DescendingLastSeen(rows) ==
    \A i, j \in DOMAIN rows : i < j => rows[i].last_seen >= rows[j].last_seen

\* C17: the sweep leaves no agent active whose last_seen predates the
\* threshold; a listing with active_only true, or without the parameter, is
\* answered with the active agents only, a listing with active_only false with
\* every agent, both in descending order of last_seen.
C17_ListingAfterSweep ==
    [][/\ (agents' # agents /\ req' = req) =>
            \A row \in agents' : row.last_seen + StaleAfter < now => ~row.is_active
       /\ \A s \in Slots :
            LET r == req[s]
                r2 == req'[s]
            IN (IsList(r2) /\ r.pc # "done" /\ OfClient(r2)) =>
                 /\ r2.status = 200
                 /\ DescendingLastSeen(r2.rows)
                 /\ r2.input.active_only \in {Absent, <<"true">>} =>
                      {r2.rows[i] : i \in DOMAIN r2.rows} = {row \in agents : row.is_active}
                 /\ r2.input.active_only = <<"false">> =>
                      {r2.rows[i] : i \in DOMAIN r2.rows} = agents]_vars

----------------------------------------------------------------------------
(* Authentication failures *)

\* The request carried neither x-api-key nor authorization, and
\* authenticateApiKey has run on it.
NoCredential(r) ==
    r.target \in ProtectedRoutes /\ "auth" \in Events(r) /\ r.apiKey = Absent

\* C18: a request to a protected endpoint with neither the x-api-key header nor
\* an authorization header is answered 401 at once: authenticateApiKey issues
\* no query to api_keys and makes no hash comparison for it.
C18_MissingKeyFailsFast ==
    /\ \A target \in ProtectedRoutes :
         LET a == Authenticate([Idle EXCEPT !.target = target], NoHeaders)
         IN a.pc = "done" /\ a.status = 401
    /\ \A s \in Slots :
         NoCredential(req[s]) =>
            /\ Done(req[s]) /\ req[s].status = 401
            /\ req[s].trace = <<"rate", "auth", "response">>
            /\ req[s].lookup = <<>> /\ req[s].validKey = NoKey

\* C18 witness: with an active credential in the table, a request without
\* headers has been answered 401 with no lookup.
C18_Witness ==
    /\ \E i \in DOMAIN api_keys : api_keys[i].is_active
    /\ \E s \in Slots :
         /\ NoCredential(req[s]) /\ req[s].status = 401
         /\ "auth_select" \notin Events(req[s])

\* A request whose key has been verified as credential 1, as authenticateApiKey
\* holds it at the touch.
AtTouch(target) ==
    [Idle EXCEPT !.target = target, !.pc = "auth_touch", !.apiKey = NewApiKey(1),
                 !.validKey = 1]

\* C19: on a successful verification last_used_at of the matched credential is
\* recorded, without the request waiting on the write: the request of a
\* provisioned client is verified and never waits at the touch, and a touch
\* that fails leaves the request on its way to the handler, not answered with
\* an error.
C19_TouchNonBlocking ==
    /\ \A s \in Slots : req[s].pc # "auth_touch"
    /\ \A s \in Slots :
         PresentedActive(req[s]) =>
            /\ req[s].validKey # NoKey
            /\ api_keys[req[s].validKey].last_used_at # NoTime
    /\ \A target \in ProtectedRoutes :
         ~Done(FailureOf(AtTouch(target))) /\ FailureOf(AtTouch(target)).status # 500

\* C20: auth failures are uniform: a request without a credential and a request
\* with a credential that does not verify get the same status and the same
\* error message.
C20_UniformAuthFailure ==
    \A s, o \in Slots :
        (/\ req[s].target \in ProtectedRoutes /\ req[o].target \in ProtectedRoutes
         /\ req[s].status = 401 /\ req[o].status = 401) =>
            req[s].error = req[o].error

\* A response of the limiter: status 429.
RateLimited(r) == Done(r) /\ r.status = 429

\* The limiter's rejection is the same for every request: one message, the
\* limit, nothing remaining and the time to the window's end in the headers,
\* sent before any credential has been read.
UniformRejection(r) ==
    /\ r.error = "Too many requests, please try again later"
    /\ r.rateLimit.limit = RateLimitMax
    /\ r.rateLimit.remaining = 0
    /\ r.rateLimit.reset \in 1..WindowMs
    /\ r.trace = <<"rate", "response">>
    /\ r.apiKey = Absent /\ r.lookup = <<>> /\ r.validKey = NoKey

\* C21 (as amended): a request over the limit is answered 429 with one fixed
\* message and the limit, remaining and reset headers, before its credential
\* is read, so the answer is the same whether or not the credential is valid.
C21_UniformRateRejection ==
    \A s \in Slots : RateLimited(req[s]) => UniformRejection(req[s])

\* C21 witness: with a credential issued, a request of a protected route has
\* been rejected by the limiter while another request awaits its answer.
C21_Witness ==
    /\ Len(api_keys) > 0
    /\ \E s, o \in Slots :
         /\ RateLimited(req[s]) /\ req[s].target \in ProtectedRoutes
         /\ req[s].rateLimit.remaining = 0
         /\ o # s /\ req[o].status = 401

\* C21 as stated: the rejection is uniform and, in addition, cannot be told
\* from an auth rejection: a 429 and a 401 have the same status and message.
C21_RejectionLikeAuthFailure ==
    /\ \A s \in Slots : RateLimited(req[s]) => UniformRejection(req[s])
    /\ \A s, o \in Slots :
         (RateLimited(req[s]) /\ Done(req[o]) /\ req[o].status = 401) =>
            (req[s].status = req[o].status /\ req[s].error = req[o].error)

\* The stages of a request that wait on the store under an api route with a
\* credential, and the messages their catch blocks answer with.
StoreStages == {"auth_select", "auth_touch", "beacon_upsert", "beacon_insert",
                "result_insert", "results_select", "agents_select"}

GenericMessages == {"Authentication failed", "Beacon failed", "Failed to submit result",
                    "Failed to query results", "Failed to list agents"}

\* How often a stage occurs in a request's history.
Occurrences(r, event) == Cardinality({i \in DOMAIN r.trace : r.trace[i] = event})

\* The answer a is a server fault with a generic message, not the failure's
\* text.
GenericFault(a, fault) ==
    /\ Done(a) /\ a.status = 500
    /\ a.error \in GenericMessages /\ a.error # fault
    /\ a.rows = <<>>

\* C22: a store call that fails at any stage of a request is answered with a
\* server fault whose message is fixed and generic and is not the failure's
\* text, and the call is not made again: so it is for every request in
\* flight that a call to the database has failed under, and so the catch
\* block of each stage answers.
C22_StoreFailureGeneric ==
    /\ \A s \in Slots :
         LET r == req[s]
         IN (r.fault # NoFault /\ r.target \in ProtectedRoutes /\ ~LimiterFailed(r)) =>
               /\ GenericFault(r, r.fault)
               /\ \E stage \in StoreStages :
                    /\ Len(r.trace) >= 2
                    /\ SubSeq(r.trace, Len(r.trace) - 1, Len(r.trace)) = <<stage, "response">>
                    /\ Occurrences(r, stage) = 1
    /\ \A stage \in StoreStages, up \in BOOLEAN :
         LET r == [Idle EXCEPT !.pc = stage]
             fault == ErrorMessage(r, up)
             a == FailureOf([r EXCEPT !.fault = fault])
         IN GenericFault(a, fault) /\ a.trace = <<"response">>

\* C22 witness: the credential lookup of a request has failed and the request
\* has been answered 'Authentication failed'.
C22_Witness ==
    \E s \in Slots :
        /\ req[s].fault = "Connection terminated unexpectedly"
        /\ req[s].target \in ProtectedRoutes
        /\ req[s].status = 500 /\ req[s].error = "Authentication failed"

\* A health check that has been answered.
IsStatus(r) == r.target = "GET /api/v1/status" /\ Done(r)

\* C23: GET /api/v1/status needs no credential; it reports operational exactly
\* when the database probe and the cache probe both succeeded, and a request
\* under which the database or the cache could not be reached is answered
\* with the degraded response.
C23_StatusReportsDependencies ==
    \A s \in Slots :
        LET r == req[s]
        IN IsStatus(r) =>
             /\ r.status # 401 /\ "auth" \notin Events(r)
             /\ (r.status = 200) =
                   (r.fault = NoFault /\
                    r.trace = <<"rate", "status_db", "status_ping", "response">>)
             /\ r.fault # NoFault =>
                   r.status = 503 /\ r.error = "Service unavailable"

\* The ids of the rows of the result store.
ResultIds(table) == {table[i].id : i \in DOMAIN table}

\* C24: results are immutable once written: every step keeps the rows the
\* store holds as they are and at most adds to them, only the insert of a
\* submit adds a row, a submit answered 201 has added exactly one row, whose
\* id is the id it was answered with and the id of no other row.
C24_ResultsImmutable ==
    [][/\ Len(results') >= Len(results)
       /\ SubSeq(results', 1, Len(results)) = results
       /\ Cardinality(ResultIds(results')) = Len(results')
       /\ results' # results =>
            \E s \in Slots : IsSubmit(req[s]) /\ req[s].pc = "result_insert"
                              /\ req'[s].status = 201
       /\ \A s \in Slots :
            (req[s].pc # "done" /\ IsSubmit(req'[s]) /\ req'[s].status = 201) =>
               /\ req[s].pc = "result_insert"
               /\ Len(results') = Len(results) + 1
               /\ req'[s].rows = <<[id |-> results'[Len(results')].id,
                                    timestamp |-> results'[Len(results')].timestamp]>>
               /\ results'[Len(results')].id \notin ResultIds(results)]_vars

\* C24 witness: the store holds two rows and the submit that wrote the second
\* has been answered 201 with its id.
C24_Witness ==
    /\ Len(results) = 2
    /\ \E s \in Slots :
         /\ IsSubmit(req[s]) /\ req[s].status = 201
         /\ req[s].rows # <<>> /\ req[s].rows[1].id = results[2].id

\* The columns of a credential that no request writes.
Fixed(row) == [key_hash |-> row.key_hash, name |-> row.name, is_active |-> row.is_active]

\* C25: a step of a request changes the credential store only by setting
\* last_used_at of the credential the request verified as: it adds and
\* removes no row and changes no hash, name or active flag, and a request
\* whose verification fails leaves the store as it was.
C25_OnlyTouchChangesCredentials ==
    [][req' # req =>
         /\ Len(api_keys') = Len(api_keys)
         /\ \A i \in DOMAIN api_keys :
              /\ Fixed(api_keys'[i]) = Fixed(api_keys[i])
              /\ api_keys'[i].last_used_at # api_keys[i].last_used_at =>
                   /\ api_keys'[i].last_used_at = now
                   /\ \E s \in Slots : /\ req[s].pc = "auth_touch" /\ req[s].validKey = i
                                      /\ req'[s].pc = "agents_select"
         /\ \A s \in Slots :
              (req[s].pc \in {"idle", "auth_select"} /\ req'[s].status \in {401, 500}) =>
                 api_keys' = api_keys]_vars

\* C25 witness: a request has touched the credential it verified as, after the
\* credential was disabled, and another request has failed verification.
C25_Witness ==
    /\ Len(api_keys) > 0 /\ api_keys[1].last_used_at # NoTime /\ ~api_keys[1].is_active
    /\ \E s, o \in Slots :
         /\ req[s].validKey = 1 /\ "auth_touch" \in Events(req[s])
         /\ req[o].status = 401 /\ req[o].error = "Invalid API key"

\* C26: on every exit path, a signal with requests in flight and a second
\* signal during shutdown included, the server stops accepting first and the
\* pool and the Redis client are closed before the process exits: the process
\* has not exited with a handle open, and no handle is closed or closing while
\* the server accepts or a request is in flight.
C26_HandlesClosedOnExit ==
    /\ proc.phase = "exited" => proc.pool = "ended" /\ proc.cache = "closed"
    /\ (proc.pool # "open" \/ proc.cache = "closed") =>
          proc.phase \in {"closed", "exited"} /\ Drained
    /\ proc.closing # <<>> => proc.phase \in {"closed", "exited"}

\* C27: a missing signing secret is fatal: a process started without
\* JWT_SECRET is never listening and has no request in hand.
C27_MissingSecretFatal ==
    proc.jwtSecret = Absent => proc.phase # "listening" /\ Drained

\* C28: a beacon replaces the agent's mutable fields wholesale: the upsert of
\* a beacon leaves the agent's row with the metadata of that beacon, the empty
\* document when it carries none, and with the hostname, platform and version
\* of that beacon, absent where the beacon omits them, whatever the row held
\* before; the insert of the beacon record that follows changes none of them.
C28_BeaconReplaces ==
    [][\A s \in Slots :
         LET r == req[s]
             v == r.input
         IN /\ (IsBeacon(r) /\ r.pc = "beacon_upsert" /\ req'[s].pc = "beacon_insert") =>
                 /\ Cardinality(RowsOf(agents', v.agent_id)) = 1
                 /\ \A row \in RowsOf(agents', v.agent_id) :
                      /\ row.metadata = IF v.metadata = Absent THEN EmptyObject
                                        ELSE v.metadata
                      /\ row.hostname = v.hostname
                      /\ row.platform = v.platform
                      /\ row.version = v.version
            /\ (IsBeacon(r) /\ r.pc = "beacon_insert" /\ req'[s].pc = "done") =>
                 \A row \in RowsOf(agents, v.agent_id) :
                    \E new \in RowsOf(agents', v.agent_id) :
                       /\ new.metadata = row.metadata /\ new.hostname = row.hostname
                       /\ new.platform = row.platform /\ new.version = row.version]_vars

\* C28 witness: an agent checked in with hostname and metadata and then with
\* neither; its row holds no hostname and the empty document.
C28_Witness ==
    /\ Len(beacons) = 2
    /\ beacons[1].agent_id = <<"a1">> /\ beacons[1].metadata = Metadata1
    /\ beacons[2].agent_id = <<"a1">> /\ beacons[2].metadata = EmptyObject
    /\ \A row \in RowsOf(agents, <<"a1">>) :
         /\ row.hostname = Absent /\ row.platform = Absent /\ row.version = Absent
         /\ row.metadata = EmptyObject /\ row.first_seen < row.last_seen
    /\ RowsOf(agents, <<"a1">>) # {}

\* The Authorization header begins with the prefix 'Bearer '.
HasBearerPrefix(headers) ==
    headers.authorization # Absent /\ Head(headers.authorization) = "Bearer "

\* C29: a secret is taken from X-API-Key, or from an Authorization header
\* that begins with 'Bearer '; X-API-Key wins when both are present; and an
\* Authorization header without the prefix is no credential: the request is
\* answered 401 with no lookup.  Stated of authenticateApiKey on the headers
\* a caller can present.
C29_OnlyPrefixedAuthorization ==
    \A headers \in HeaderChoices(Len(api_keys)) :
        LET a == Authenticate([Idle EXCEPT !.target = "GET /api/v1/agents"], headers)
        IN /\ headers.x_api_key # Absent => a.apiKey = headers.x_api_key
           /\ (headers.x_api_key = Absent /\ HasBearerPrefix(headers)) =>
                 a.apiKey = Tail(headers.authorization) /\ a.pc = "auth_select"
           /\ (headers.x_api_key = Absent /\ ~HasBearerPrefix(headers)) =>
                 a.apiKey = Absent /\ Done(a) /\ a.status = 401

\* A beacon answered with an error.
FailedBeacon(r) == IsBeacon(r) /\ Done(r) /\ r.status >= 400

Referenced(rows, registry) ==
    \A i \in DOMAIN rows : \E a \in registry : a.agent_id = rows[i].agent_id

\* C31: every result row and every beacon record refers to an agent of the
\* registry.  The insert of a result for an identifier that has no row in the
\* registry is refused: the caller is answered with an error and the store is
\* as it was.  The insert of a result for an identifier that has beaconed is
\* not refused: unless the connection fails, the row is stored and the caller
\* answered 201.
C31_ReferencesExist ==
    [][/\ Referenced(results', agents') /\ Referenced(beacons', agents')
       /\ \A s \in Slots :
            LET r == req[s]
                r2 == req'[s]
                known == \E a \in agents : a.agent_id = r.input.agent_id
            IN (IsSubmit(r) /\ r.pc = "result_insert" /\ Done(r2)) =>
                 /\ ~known =>
                      /\ r2.status = 500 /\ r2.error = "Failed to submit result"
                      /\ results' = results
                 /\ known =>
                      \/ /\ r2.status = 201
                         /\ Len(results') = Len(results) + 1
                         /\ results'[Len(results')].agent_id = r.input.agent_id
                      \/ /\ r2.status = 500
                         /\ r2.fault = "Connection terminated unexpectedly"
                         /\ results' = results]_vars

\* C31 witness: a result for an identifier that never beaconed has been
\* answered with an error and is not in the store, and a result submitted for
\* another identifier after its first beacon is.
C31_Witness ==
    /\ Len(beacons) = 1 /\ Len(results) = 1
    /\ results[1].agent_id = beacons[1].agent_id
    /\ \E s, o \in Slots :
         /\ IsSubmit(req[s]) /\ req[s].status = 500
         /\ req[s].fault = "violates foreign key constraint"
         /\ req[s].input.agent_id # results[1].agent_id
         /\ \A a \in agents : a.agent_id # req[s].input.agent_id
         /\ IsSubmit(req[o]) /\ req[o].status = 201
         /\ req[o].input.agent_id = results[1].agent_id

\* C32: the limiter sends no command through a Redis client that is not yet
\* created and connected: whenever a request's limiter command is handed to
\* the client, the connection is established.
C32_LimiterAfterConnect ==
    [][\A s \in Slots :
         (req[s].pc = "limiter" /\ req'[s].pc # "limiter") => proc.cache = "open"]_vars

====
